---- MODULE Spec2Model ----
(***************************************************************************)
(* A model of the trading ledger (src/mcp-hooks.py, save_trading_result)   *)
(* and of the cycle aggregator (src/crypto_trading_agent.py).              *)
(*                                                                         *)
(* Money is counted in integers: an argument of save_trading_result is in  *)
(* hundredths of a dollar (cents), a stored balance or asset value is in   *)
(* tenths (the code stores round(float(x), 1)), a chart value is in whole  *)
(* dollars (the code draws round(x["balance"])).                           *)
(***************************************************************************)
EXTENDS Integers, Sequences, FiniteSets, TLC

VARIABLES
    file,       \* ./demo.json: [kind, data]
    readme,     \* ./README.md: the rendered summary document
    tpl,        \* whether ./README.tpl.md exists
    clock,      \* datetime.now(), as a count of the readings taken so far
    ncalls,     \* calls of save_trading_result made so far
    args,       \* the arguments of the latest call
    ret,        \* the outcome of the latest call
    pre,        \* history: demo.json and README.md as the latest call found them
    accepted,   \* history: the balance points of the calls that completed, in call order
    inserted,   \* history: the trade entries inserted by the calls that completed, in insertion order
    proc,       \* the calls of save_trading_result in progress, one per caller, step by step
    seen,       \* what _get_balances_from_demo returned last
    report,     \* what generate_trading_report returned last
    ag,         \* CryptoTradingAgent's run: where it is, the loop of run_multi_cycle_analysis
    cyc,        \* the locals of the run_trading_cycle in progress
    self_trades,\* self.trades
    tally       \* history: cycles started and returned, notifications attempted

ledgerVars == <<file, readme, tpl, clock, ncalls, args, ret, pre, accepted, inserted>>
stepVars == <<proc, seen, report>>
agentVars == <<ag, cyc, self_trades, tally>>
vars == <<ledgerVars, stepVars, agentVars>>

----------------------------------------------------------------------------
(* Bounds of the model *)

MaxCalls == 2
MaxWindowCalls == 1030
MaxConcCalls == 3
MaxCycles == 3
MaxRecords == 25

(* Program constants *)

BALANCES_KEEP == 1000
TRADES_KEEP == 100
README_TRADES == 10

----------------------------------------------------------------------------
(* Values *)

Min(a, b) == IF a < b THEN a ELSE b

\* lst[-n:]: the last n elements of lst (all of it when it is shorter)
LastN(lst, n) == SubSeq(lst, Len(lst) - Min(Len(lst), n) + 1, Len(lst))

\* lst[0:n]: the first n elements of lst (all of it when it is shorter)
FirstN(lst, n) == SubSeq(lst, 1, Min(Len(lst), n))

Reverse(lst) == [i \in 1..Len(lst) |-> lst[Len(lst) + 1 - i]]

\* round(float(x), 1) of x given in cents, in tenths. Python rounds the binary
\* float correctly: a decimal tie (x.x5) is a true tie only when it is exactly
\* representable (x.25, x.75), and then goes to the even tenth. The inputs of
\* the model hold no other tie.
Round1(cents) ==
    LET q == cents \div 10
        r == cents % 10
    IN  IF r < 5 THEN q
        ELSE IF r > 5 THEN q + 1
        ELSE IF q % 2 = 0 THEN q ELSE q + 1

\* round(x) of x given in tenths, in whole dollars: x.5 is exact, ties go to even.
RoundInt(tenths) ==
    LET q == tenths \div 10
        r == tenths % 10
    IN  IF r < 5 THEN q
        ELSE IF r > 5 THEN q + 1
        ELSE IF q % 2 = 0 THEN q ELSE q + 1

EmptyMap == [c \in {} |-> 0]

\* data = {}
EmptyData == [keys |-> {}, balances |-> <<>>, assets |-> EmptyMap, trades |-> <<>>]

\* demo.json on disk
Absent == [kind |-> "absent", data |-> EmptyData]
EmptyFile == [kind |-> "empty", data |-> EmptyData]
Corrupt == [kind |-> "corrupt", data |-> EmptyData]
NonObject == [kind |-> "nonobject", data |-> EmptyData]
Unreadable == [kind |-> "unreadable", data |-> EmptyData]
LedgerFile(d) == [kind |-> "ledger", data |-> d]

NoReadme == [written |-> FALSE, line |-> <<>>, assets |-> EmptyMap, trades |-> <<>>]

----------------------------------------------------------------------------
(* save_trading_result, line by line *)

NotBalance_OnlyMissing(b) == ~b.given

\* if not balance
NotBalance(b) == ~b.given \/ b.cents = 0

\* open(path) and json.load(file), except (FileNotFoundError, json.JSONDecodeError):
\* a missing file and unparseable content give {}; any other failure is not caught.
\* Valid JSON that is not an object loads, and data.setdefault then raises.
LoadLedger(f) ==
    CASE f.kind = "ledger" -> [raised |-> FALSE, data |-> f.data]
      [] f.kind \in {"absent", "empty", "corrupt"} -> [raised |-> FALSE, data |-> EmptyData]
      [] OTHER -> [raised |-> TRUE, data |-> EmptyData]

AppendBalance_KeepFirst(data, now, b) ==
    LET balances == Append(data.balances, [time |-> now, balance |-> Round1(b.cents)])
    IN  [data EXCEPT !.keys = @ \cup {"balances"},
                     !.balances = FirstN(balances, BALANCES_KEEP)]

\* balances = data.setdefault("balances", []); balances.append(...); data["balances"] = balances[-1000:]
AppendBalance(data, now, b) ==
    LET balances == Append(data.balances, [time |-> now, balance |-> Round1(b.cents)])
    IN  [data EXCEPT !.keys = @ \cup {"balances"},
                     !.balances = LastN(balances, BALANCES_KEEP)]

\* isinstance(assets, str): json.loads(assets), except ValueError: {}
ParseAssets(a) ==
    CASE a.form = "dict" -> [isdict |-> TRUE, val |-> a.val]
      [] a.form = "json" -> [isdict |-> TRUE, val |-> a.val]
      [] a.form = "jsonlist" -> [isdict |-> FALSE, val |-> EmptyMap]
      [] OTHER -> [isdict |-> TRUE, val |-> EmptyMap]

SetAssets_Merge(data, a) ==
    LET p == ParseAssets(a)
    IN  IF p.isdict /\ DOMAIN p.val # {}
        THEN [data EXCEPT !.keys = @ \cup {"assets"},
                          !.assets = [k \in DOMAIN p.val \cup DOMAIN data.assets |->
                                         IF k \in DOMAIN p.val THEN Round1(p.val[k])
                                         ELSE data.assets[k]]]
        ELSE data

\* if assets and isinstance(assets, dict): data["assets"] = {k: round(float(v), 1) ...}
SetAssets(data, a) ==
    LET p == ParseAssets(a)
    IN  IF p.isdict /\ DOMAIN p.val # {}
        THEN [data EXCEPT !.keys = @ \cup {"assets"},
                          !.assets = [k \in DOMAIN p.val |-> Round1(p.val[k])]]
        ELSE data

\* isinstance(trades, str): json.loads(trades), except ValueError: None
ParseTrades(t) ==
    CASE t.form = "list" -> [islist |-> TRUE, val |-> t.val]
      [] t.form = "json" -> [islist |-> TRUE, val |-> t.val]
      [] t.form = "jsondict" -> [islist |-> FALSE, val |-> <<>>]
      [] OTHER -> [islist |-> FALSE, val |-> <<>>]

\* str(trade)
StrOf(e) == IF e.py = "str" THEN e.v ELSE ToString(e.v)

\* The entries of one call, in insertion order; each reads the clock anew.
NewEntries(now, lst) ==
    [i \in 1..Len(lst) |-> [time |-> now + i, text |-> StrOf(lst[i])]]

InsertFront_Whole(lst, entries) == entries \o lst

\* for trade in trades: lst.insert(0, ...)
InsertFront(lst, entries) == Reverse(entries) \o lst

\* if trades and isinstance(trades, list): ...; data["trades"] = lst[0:100]
InsertTrades(data, now, t) ==
    LET p == ParseTrades(t)
    IN  IF p.islist /\ Len(p.val) > 0
        THEN [data EXCEPT !.keys = @ \cup {"trades"},
                          !.trades = FirstN(InsertFront(data.trades, NewEntries(now, p.val)),
                                            TRADES_KEEP)]
        ELSE data

\* The trade entries a call inserts (history only)
EntriesOf(now, t) ==
    LET p == ParseTrades(t)
    IN  IF p.islist THEN NewEntries(now, p.val) ELSE <<>>

\* Lines 41-71: the ledger after the call's changes. The balance point reads the
\* clock first, the trade entries after it.
UpdateLedger(data, now, a) ==
    InsertTrades(SetAssets(AppendBalance(data, now + 1, a.balance), a.assets), now + 1, a.trades)

\* The clock readings of lines 41-71
Ticks(a) == 1 + Len(EntriesOf(0, a.trades))

\* line = ",".join(str(round(x["balance"])) ...)
ChartLine(data) == [i \in 1..Len(data.balances) |-> RoundInt(data.balances[i].balance)]

\* Lines 82-95: README.md from the template
RenderReadme(data) ==
    [written |-> TRUE,
     line |-> ChartLine(data),
     assets |-> data.assets,
     trades |-> FirstN(data.trades, README_TRADES)]

NoArgs == [balance |-> [given |-> FALSE, cents |-> 0],
           assets |-> [form |-> "default", val |-> EmptyMap],
           trades |-> [form |-> "default", val |-> <<>>]]

\* save_trading_result(balance, assets, trades), run to its end with nothing else
\* touching the files
save_trading_result(a) ==
    /\ args' = a
    /\ ncalls' = ncalls + 1
    /\ pre' = [file |-> file, readme |-> readme]
    /\ tpl' = tpl
    /\ IF NotBalance(a.balance)
       THEN /\ ret' = [kind |-> "rejected", chart |-> <<>>]
            /\ UNCHANGED <<file, readme, clock, accepted, inserted>>
       ELSE LET ld == LoadLedger(file)
                new == UpdateLedger(ld.data, clock, a)
            IN  IF ld.raised
                THEN /\ ret' = [kind |-> "raised", chart |-> <<>>]
                     /\ UNCHANGED <<file, readme, clock, accepted, inserted>>
                ELSE /\ file' = LedgerFile(new)
                     /\ readme' = IF tpl THEN RenderReadme(new) ELSE readme
                     /\ clock' = clock + Ticks(a)
                     /\ ret' = [kind |-> "ok", chart |-> ChartLine(new)]
                     /\ accepted' = Append(accepted, [time |-> clock + 1, cents |-> a.balance.cents])
                     /\ inserted' = inserted \o EntriesOf(clock + 1, a.trades)

----------------------------------------------------------------------------
(* Arguments *)

BalanceArgs ==
    {[given |-> FALSE, cents |-> 0]} \cup
    {[given |-> TRUE, cents |-> c] : c \in {0, 125, 1004}}

AssetsA == [c \in {"BTC", "USDT"} |-> IF c = "BTC" THEN 12 ELSE 50000]
AssetsB == [c \in {"ETH"} |-> 126]

AssetArgs ==
    {[form |-> "default", val |-> EmptyMap],
     [form |-> "dict", val |-> EmptyMap],
     [form |-> "dict", val |-> AssetsA],
     [form |-> "json", val |-> AssetsB]}

TradeText(s) == [py |-> "str", v |-> s]
LongTrades == [i \in 1..(TRADES_KEEP + 1) |-> [py |-> "int", v |-> i]]

TradeArgs ==
    {[form |-> "default", val |-> <<>>],
     [form |-> "list", val |-> <<TradeText("Buy 0.1 BTC")>>],
     [form |-> "json", val |-> <<TradeText("Sell 1 ETH"), TradeText("Buy 2 SOL")>>],
     [form |-> "list", val |-> LongTrades],
     [form |-> "badstr", val |-> <<>>]}

SaveArgs == [balance : BalanceArgs, assets : AssetArgs, trades : TradeArgs]

----------------------------------------------------------------------------
(* save_trading_result step by step: what another caller or a reader of    *)
(* demo.json can see between its reads and writes of the file              *)

Procs == {1, 2}

Idle == [pc |-> "idle", args |-> NoArgs, data |-> EmptyData,
         ret |-> [kind |-> "none", chart |-> <<>>],
         pre |-> Absent, before |-> Absent, torn |-> FALSE]

\* demo.json is unparseable because caller q has opened it for writing (which
\* empties it) and has not finished json.dump, and it held a ledger before.
TornBy(q) ==
    /\ file.kind \in {"empty", "corrupt"}
    /\ proc[q].pc = "dump"
    /\ proc[q].before.kind = "ledger"

\* Lines 31-71: the validation, the read of demo.json and the changes to data
save_begin(p, a) ==
    /\ proc[p].pc = "idle"
    /\ ncalls' = ncalls + 1
    /\ UNCHANGED <<file, readme, tpl, args, ret, pre, accepted, inserted, seen, report>>
    /\ UNCHANGED agentVars
    /\ IF NotBalance(a.balance)
       THEN /\ proc' = [proc EXCEPT ![p] = [Idle EXCEPT !.args = a,
                                                         !.ret = [kind |-> "rejected", chart |-> <<>>]]]
            /\ clock' = clock
       ELSE LET ld == LoadLedger(file)
            IN  IF ld.raised
                THEN /\ proc' = [proc EXCEPT ![p] = [Idle EXCEPT !.args = a,
                                                                  !.pre = file,
                                                                  !.ret = [kind |-> "raised", chart |-> <<>>]]]
                     /\ clock' = clock
                ELSE /\ proc' = [proc EXCEPT ![p] =
                            [pc |-> "open", args |-> a,
                             data |-> UpdateLedger(ld.data, clock, a),
                             ret |-> [kind |-> "none", chart |-> <<>>],
                             pre |-> file, before |-> Absent,
                             torn |-> \E q \in Procs \ {p} : TornBy(q)]]
                     /\ clock' = clock + Ticks(a)

\* Line 73: open(path, "w") empties demo.json
save_open(p) ==
    /\ proc[p].pc = "open"
    /\ file' = EmptyFile
    /\ proc' = [proc EXCEPT ![p].pc = "dump", ![p].before = file]
    /\ UNCHANGED <<readme, tpl, clock, ncalls, args, ret, pre, accepted, inserted, seen, report>>
    /\ UNCHANGED agentVars

\* The length of a ledger's JSON text, as far as two can be compared: the callers
\* of the step-by-step specifications all bring arguments of one shape (balances
\* of equally many digits, the same asset keys, one trade text of one length), so
\* of two ledgers the one with more entries has the longer text.
TextSize(d) == Len(d.balances) + Cardinality(DOMAIN d.assets) + Len(d.trades)

\* What is left of a longer text d that a shorter one has been written over:
\* unparseable, and as long as d
Overlaid(d) == [kind |-> "corrupt", data |-> d]

\* Line 74: json.dump(data, file) writes from the start of the file. Onto the
\* empty file it leaves the caller's ledger. If another caller has written since
\* this one opened the file, the new text overlays the old: the result is this
\* caller's ledger when its text is at least as long as what is there, and
\* otherwise its text followed by the rest of the old one.
save_dump(p) ==
    /\ proc[p].pc = "dump"
    /\ file' = IF TextSize(proc[p].data) >= TextSize(file.data)
               THEN LedgerFile(proc[p].data)
               ELSE Overlaid(file.data)
    /\ proc' = [proc EXCEPT ![p].pc = "render"]
    /\ UNCHANGED <<readme, tpl, clock, ncalls, args, ret, pre, accepted, inserted, seen, report>>
    /\ UNCHANGED agentVars

\* Line 74 failing part-way (the disk is full, the process is stopped): the file
\* keeps what had been written by then, nothing or a prefix of the JSON text.
save_dump_fails(p) ==
    /\ proc[p].pc = "dump"
    /\ file' \in {EmptyFile, Corrupt}
    /\ proc' = [proc EXCEPT ![p].pc = "idle",
                            ![p].ret = [kind |-> "write_failed", chart |-> <<>>]]
    /\ UNCHANGED <<readme, tpl, clock, ncalls, args, ret, pre, accepted, inserted, seen, report>>
    /\ UNCHANGED agentVars

\* Lines 76-100: the chart, README.md and the return value
save_render(p) ==
    /\ proc[p].pc = "render"
    /\ readme' = IF tpl THEN RenderReadme(proc[p].data) ELSE readme
    /\ proc' = [proc EXCEPT ![p].pc = "idle",
                            ![p].ret = [kind |-> "ok", chart |-> ChartLine(proc[p].data)]]
    /\ accepted' = Append(accepted, [time |-> proc[p].data.balances[Len(proc[p].data.balances)].time,
                                     cents |-> proc[p].args.balance.cents])
    /\ inserted' = inserted \o EntriesOf(proc[p].data.balances[Len(proc[p].data.balances)].time,
                                          proc[p].args.trades)
    /\ UNCHANGED <<file, tpl, clock, ncalls, args, ret, pre, seen, report>>
    /\ UNCHANGED agentVars

\* _get_balances_from_demo: trading_data.get("balances", []), and [] on any failure
NotRead == [read |-> FALSE, fallback |-> FALSE, torn |-> FALSE, balances |-> <<>>]

get_balances_from_demo ==
    /\ seen' = [read |-> TRUE,
                fallback |-> file.kind # "ledger",
                torn |-> \E q \in Procs : TornBy(q),
                balances |-> IF file.kind = "ledger" THEN file.data.balances ELSE <<>>]
    /\ UNCHANGED <<ledgerVars, proc, report, agentVars>>

----------------------------------------------------------------------------
(* CryptoTradingAgent (src/crypto_trading_agent.py). The agent counts money *)
(* in thousandths of a dollar (mills): it rounds to cents only when it      *)
(* saves, and when it prints.                                               *)

SUPPORTED_PAIRS == <<"BTC-USDT", "ETH-USDT", "SOL-USDT", "ETH-BTC", "SOL-BTC", "SOL-ETH">>
PairIdx == 1..Len(SUPPORTED_PAIRS)

\* round(float(x), 2) of x given in mills, in cents (ties as in Round1)
Round2(mills) == Round1(mills)

\* n / d to the nearest integer, an exact tie to the even one (d > 0, n >= 0):
\* what a format such as :.2f prints of a quotient
RoundRatio(n, d) ==
    LET q == n \div d
        r == n % d
    IN  IF 2 * r < d THEN q
        ELSE IF 2 * r > d THEN q + 1
        ELSE IF q % 2 = 0 THEN q ELSE q + 1

\* What Task answers to the analysis request of one pair: it raises, it returns
\* something falsy, or it returns an analysis, whose recommendation has an action
\* and a confidence (in hundredths; "hold" and 0.5 when they are missing)
Raises == [kind |-> "raise", action |-> "hold", conf |-> 0]
Nothing == [kind |-> "none", action |-> "hold", conf |-> 0]
Advice(action, conf) == [kind |-> "rec", action |-> action, conf |-> conf]

\* {"error": ..., "pair": pair}
ErrorEntry == [kind |-> "error", action |-> "hold", conf |-> 0]

\* analyze_market, lines 48-101: pairs_analysis, keyed by the pair's place in
\* SUPPORTED_PAIRS. If a request of the first round raises, every pair is
\* requested again, one by one: a request that raises then gives an error entry,
\* and any other answer is stored as it is. Otherwise a falsy answer of the
\* first round gives an error entry.
PairsAnalysis(first, second) ==
    IF \E i \in PairIdx : first[i].kind = "raise"
    THEN [i \in PairIdx |-> IF second[i].kind = "raise" THEN ErrorEntry ELSE second[i]]
    ELSE [i \in PairIdx |-> IF first[i].kind = "none" THEN ErrorEntry ELSE first[i]]

\* execute_trades, lines 116-138: the pairs to execute, in the order of the analysis
ToExecute(analysis) ==
    LET Wanted(i) == /\ analysis[i].kind = "rec"
                     /\ analysis[i].action # "hold"
                     /\ analysis[i].conf > 70
    IN  SelectSeq([i \in PairIdx |-> i], Wanted)

\* trade['action'].upper()
Upper(action) ==
    CASE action = "buy" -> "BUY"
      [] action = "sell" -> "SELL"
      [] OTHER -> "HOLD"

\* Lines 141-189: one entry per pair to execute, with the result or the error
Executed(analysis, failing) ==
    LET todo == ToExecute(analysis)
    IN  [k \in 1..Len(todo) |->
            [pair |-> todo[k],
             action |-> analysis[todo[k]].action,
             confidence |-> analysis[todo[k]].conf,
             ok |-> todo[k] \notin failing]]

\* Line 177: self.trades.append(f"{trade['action'].upper()} {trade['pair']}"),
\* for the executions that did not raise
Descriptions(executed) ==
    LET Ok(e) == e.ok
        done == SelectSeq(executed, Ok)
    IN  [k \in 1..Len(done) |-> Upper(done[k].action) \o " " \o SUPPORTED_PAIRS[done[k].pair]]

\* What mcp__okx__account_balance answers: it raises, it returns something
\* falsy, or it returns totalEq and the available balance per currency (in mills)
AcctRaises == [kind |-> "raise", totalEq |-> 0, details |-> EmptyMap]
AcctNothing == [kind |-> "none", totalEq |-> 0, details |-> EmptyMap]
Acct(total, details) == [kind |-> "ok", totalEq |-> total, details |-> details]

\* get_account_info, lines 227-266
AccountInfo(acct) ==
    IF acct.kind = "ok"
    THEN [success |-> TRUE,
          total_balance |-> acct.totalEq,
          assets |-> [k \in {c \in DOMAIN acct.details : acct.details[c] > 0} |-> acct.details[k]]]
    ELSE [success |-> FALSE, total_balance |-> 0, assets |-> EmptyMap]

\* CryptoTradingAgent.save_trading_result, lines 204-214: the arguments of the tool
ToolArgs(balance, assets, trades) ==
    [balance |-> [given |-> TRUE, cents |-> Round2(balance)],
     assets |-> [form |-> "dict", val |-> [k \in DOMAIN assets |-> Round2(assets[k])]],
     trades |-> [form |-> "list", val |-> [k \in 1..Len(trades) |-> TradeText(trades[k])]]]

\* One call of an external capability, as the cycle makes it: the step of
\* run_trading_cycle that makes it, the capability, the pair it is about (0 when
\* it is about none) and whether it answered (FALSE: it raised; for the account
\* capability also: it returned nothing)
Call(step, op, pair, ok) == [step |-> step, op |-> op, pair |-> pair, ok |-> ok]

\* analyze_market, lines 48-101: the requests made. The first round stops at the
\* first request that raises; the handler of line 85 then requests every pair again.
AnalysisCalls(first, second) ==
    LET bad == {i \in PairIdx : first[i].kind = "raise"}
        last == IF bad = {} THEN Len(SUPPORTED_PAIRS)
                ELSE CHOOSE i \in bad : \A j \in bad : i <= j
        round1 == [i \in 1..last |-> Call("analysis", "analyze", i, first[i].kind # "raise")]
        round2 == [i \in PairIdx |-> Call("analysis", "analyze", i, second[i].kind # "raise")]
    IN  IF bad = {} THEN round1 ELSE round1 \o round2

\* execute_trades, lines 141-189: one request per trade to execute
ExecutionCalls(executed) ==
    [k \in 1..Len(executed) |-> Call("execution", "execute", executed[k].pair, executed[k].ok)]

\* send_telegram_report, lines 275-306: generate_report_content asks the account
\* capability again (lines 389-406), then the markdown rule, then the photo or the
\* text; if either raises, one plain fallback message
ReportCalls(r, acct) ==
    <<Call("report", "account", 0, acct.kind = "ok"), Call("report", "rule", 0, r.rule)>>
    \o (IF r.rule THEN <<Call("report", "send", 0, r.send)>> ELSE <<>>)
    \o (IF r.rule /\ r.send THEN <<>> ELSE <<Call("report", "send", 0, r.fallback)>>)

\* run_trading_cycle, lines 477-482: the error message
ErrorCalls(r) ==
    <<Call("error", "rule", 0, r.rule)>>
    \o (IF r.rule THEN <<Call("error", "send", 0, r.send)>> ELSE <<>>)

NoCycle == [analysis |-> [i \in PairIdx |-> ErrorEntry],
            calls |-> <<>>,
            raised |-> "none",
            executed_trades |-> <<>>,
            balance |-> 0,
            assets |-> EmptyMap,
            image_url |-> FALSE,
            result |-> [success |-> FALSE, balance |-> 0, executed_trades |-> <<>>, error |-> "none"]]

NoRun == [pc |-> "idle", mode |-> "multi", cycles |-> 0, i |-> 0, results |-> <<>>,
          successful_cycles |-> 0, summary |-> [raised |-> FALSE], ret |-> [kind |-> "none"],
          branch |-> "none"]

NoTally == [started |-> 0, returned |-> 0, sends |-> 0, delivered |-> 0, summaries |-> 0]

\* The notification sink: each of the up to three calls of one report answers or raises
NotifyResps == [rule : BOOLEAN, send : BOOLEAN, fallback : BOOLEAN]

\* run_multi_cycle_analysis(cycles), lines 495-498
run_multi_cycle_analysis(n) ==
    /\ ag.pc = "idle"
    /\ ag' = [NoRun EXCEPT !.pc = "loop", !.cycles = n]
    /\ UNCHANGED <<cyc, self_trades, tally, ledgerVars, stepVars>>

\* Lines 500-504 and 417-424: the loop starts its next cycle
cycle_start ==
    /\ ag.pc = "loop"
    /\ ag.i < ag.cycles
    /\ ag' = [ag EXCEPT !.pc = "analyze"]
    /\ cyc' = NoCycle
    /\ tally' = [tally EXCEPT !.started = @ + 1, !.sends = 0, !.delivered = 0]
    /\ UNCHANGED <<self_trades, ledgerVars, stepVars>>

\* Lines 425-427: analyze_market
analyze_market(first, second) ==
    /\ ag.pc = "analyze"
    /\ cyc' = [cyc EXCEPT !.analysis = PairsAnalysis(first, second),
                          !.calls = @ \o AnalysisCalls(first, second)]
    /\ ag' = [ag EXCEPT !.pc = "execute"]
    /\ UNCHANGED <<self_trades, tally, ledgerVars, stepVars>>

execute_trades_GoesOnAfterError(failing) ==
    /\ ag.pc = "execute"
    /\ IF \E i \in PairIdx : cyc.analysis[i].kind = "none"
       THEN /\ ag' = [ag EXCEPT !.pc = "account"]
            /\ cyc' = [cyc EXCEPT !.raised = "TypeError"]
            /\ UNCHANGED self_trades
       ELSE LET executed == Executed(cyc.analysis, failing)
            IN  /\ cyc' = [cyc EXCEPT !.executed_trades = executed,
                                      !.calls = @ \o ExecutionCalls(executed)]
                /\ self_trades' = self_trades \o Descriptions(executed)
                /\ ag' = [ag EXCEPT !.pc = "account"]
    /\ UNCHANGED <<tally, ledgerVars, stepVars>>

\* Lines 429-431: execute_trades. `"error" in pair_analysis` raises a TypeError on
\* an analysis that is None, before anything is executed; the exception leaves
\* execute_trades for the handler of run_trading_cycle.
execute_trades(failing) ==
    /\ ag.pc = "execute"
    /\ IF \E i \in PairIdx : cyc.analysis[i].kind = "none"
       THEN /\ ag' = [ag EXCEPT !.pc = "failed"]
            /\ cyc' = [cyc EXCEPT !.raised = "TypeError"]
            /\ UNCHANGED self_trades
       ELSE LET executed == Executed(cyc.analysis, failing)
            IN  /\ cyc' = [cyc EXCEPT !.executed_trades = executed,
                                      !.calls = @ \o ExecutionCalls(executed)]
                /\ self_trades' = self_trades \o Descriptions(executed)
                /\ ag' = [ag EXCEPT !.pc = "account"]
    /\ UNCHANGED <<tally, ledgerVars, stepVars>>

get_account_info_FailureIsFatal(acct) ==
    /\ ag.pc = "account"
    /\ LET info == AccountInfo(acct)
       IN  IF info.success
           THEN /\ save_trading_result(ToolArgs(info.total_balance, info.assets, self_trades))
                /\ cyc' = [cyc EXCEPT !.balance = info.total_balance,
                                      !.assets = info.assets,
                                      !.image_url = (ret'.kind = "ok"),
                                      !.calls = @ \o <<Call("persist", "account", 0, TRUE),
                                                       Call("persist", "save", 0, ret'.kind = "ok")>>]
                /\ ag' = [ag EXCEPT !.pc = "report"]
           ELSE /\ cyc' = [cyc EXCEPT !.raised = "AccountError",
                                      !.calls = Append(@, Call("persist", "account", 0, FALSE))]
                /\ ag' = [ag EXCEPT !.pc = "failed"]
                /\ UNCHANGED ledgerVars
    /\ UNCHANGED <<self_trades, tally, stepVars>>

\* Lines 433-446: get_account_info and, when it succeeded, the call of the
\* save_trading_result tool. The agent's wrapper catches what the tool raises and
\* returns the chart's URL only when the tool returned one.
get_account_info(acct) ==
    /\ ag.pc = "account"
    /\ LET info == AccountInfo(acct)
       IN  IF info.success
           THEN /\ save_trading_result(ToolArgs(info.total_balance, info.assets, self_trades))
                /\ cyc' = [cyc EXCEPT !.balance = info.total_balance,
                                      !.assets = info.assets,
                                      !.image_url = (ret'.kind = "ok"),
                                      !.calls = @ \o <<Call("persist", "account", 0, TRUE),
                                                       Call("persist", "save", 0, ret'.kind = "ok")>>]
           ELSE /\ cyc' = [cyc EXCEPT !.balance = 0, !.assets = EmptyMap, !.image_url = FALSE,
                                      !.calls = Append(@, Call("persist", "account", 0, FALSE))]
                /\ UNCHANGED ledgerVars
    /\ ag' = [ag EXCEPT !.pc = "report"]
    /\ UNCHANGED <<self_trades, tally, stepVars>>

\* send_telegram_report, lines 275-306: the markdown rule, then the photo or the
\* text; if either raises, one plain fallback message, whose failure is logged
SendsOfReport(r) == IF r.rule /\ r.send THEN 1 ELSE IF r.rule THEN 2 ELSE 1
DeliveredOfReport(r) == IF r.rule /\ r.send THEN 1 ELSE IF r.fallback THEN 1 ELSE 0

send_telegram_report_SinkFailureRaises(r, acct) ==
    /\ ag.pc = "report"
    /\ tally' = [tally EXCEPT !.sends = @ + SendsOfReport(r),
                              !.delivered = @ + DeliveredOfReport(r)]
    /\ IF DeliveredOfReport(r) = 0
       THEN /\ cyc' = [cyc EXCEPT !.raised = "SinkError", !.calls = @ \o ReportCalls(r, acct)]
            /\ ag' = [ag EXCEPT !.pc = "failed"]
       ELSE /\ cyc' = [cyc EXCEPT !.result = [success |-> TRUE,
                                              balance |-> cyc.balance,
                                              executed_trades |-> cyc.executed_trades,
                                              error |-> "none"],
                                  !.calls = @ \o ReportCalls(r, acct)]
            /\ ag' = [ag EXCEPT !.pc = "returned"]
    /\ UNCHANGED <<self_trades, ledgerVars, stepVars>>

\* Lines 448-472: the report is sent and the cycle returns its result
send_telegram_report(r, acct) ==
    /\ ag.pc = "report"
    /\ tally' = [tally EXCEPT !.sends = @ + SendsOfReport(r),
                              !.delivered = @ + DeliveredOfReport(r)]
    /\ cyc' = [cyc EXCEPT !.result = [success |-> TRUE,
                                      balance |-> cyc.balance,
                                      executed_trades |-> cyc.executed_trades,
                                      error |-> "none"],
                          !.calls = @ \o ReportCalls(r, acct)]
    /\ ag' = [ag EXCEPT !.pc = "returned"]
    /\ UNCHANGED <<self_trades, ledgerVars, stepVars>>

cycle_except_SinkFailureEscapes(r, escapes) ==
    /\ ag.pc = "failed"
    /\ tally' = [tally EXCEPT !.sends = @ + (IF r.rule THEN 1 ELSE 0),
                              !.delivered = @ + (IF r.rule /\ r.send THEN 1 ELSE 0)]
    /\ cyc' = [cyc EXCEPT !.result = [success |-> FALSE, balance |-> 0,
                                      executed_trades |-> <<>>, error |-> cyc.raised],
                          !.calls = @ \o ErrorCalls(r)]
    /\ ag' = [ag EXCEPT !.pc = IF escapes \/ ~(r.rule /\ r.send) THEN "escaped" ELSE "returned"]
    /\ UNCHANGED <<self_trades, ledgerVars, stepVars>>

\* Lines 474-489: the handler of run_trading_cycle sends the error message (a
\* failure of the sink is logged) and returns success=False. An exception raised
\* by the handler outside its inner try (the log call, str(e)) leaves
\* run_trading_cycle for the handler of the loop, lines 512-518.
cycle_except(r, escapes) ==
    /\ ag.pc = "failed"
    /\ tally' = [tally EXCEPT !.sends = @ + (IF r.rule THEN 1 ELSE 0),
                              !.delivered = @ + (IF r.rule /\ r.send THEN 1 ELSE 0)]
    /\ cyc' = [cyc EXCEPT !.result = [success |-> FALSE, balance |-> 0,
                                      executed_trades |-> <<>>, error |-> cyc.raised],
                          !.calls = @ \o ErrorCalls(r)]
    /\ ag' = [ag EXCEPT !.pc = IF escapes THEN "escaped" ELSE "returned"]
    /\ UNCHANGED <<self_trades, ledgerVars, stepVars>>

cycle_return_StopsOnFailure ==
    /\ ag.pc \in {"returned", "escaped"}
    /\ ag.mode = "multi"
    /\ ag' = [ag EXCEPT !.pc = "loop",
                        !.i = IF cyc.result.success THEN @ + 1 ELSE ag.cycles,
                        !.results = Append(@, cyc.result),
                        !.successful_cycles = IF cyc.result.success THEN @ + 1 ELSE @]
    /\ tally' = [tally EXCEPT !.returned = @ + 1, !.sends = 0, !.delivered = 0]
    /\ cyc' = NoCycle
    /\ UNCHANGED <<self_trades, ledgerVars, stepVars>>

\* Lines 504-518: the result of the cycle is appended to results and counted when
\* it succeeded; an exception that left run_trading_cycle is appended as a failure
cycle_return ==
    /\ ag.pc \in {"returned", "escaped"}
    /\ ag.mode = "multi"
    /\ ag' = [ag EXCEPT !.pc = "loop",
                        !.i = @ + 1,
                        !.results = Append(@, IF ag.pc = "returned" THEN cyc.result
                                              ELSE [success |-> FALSE, balance |-> 0,
                                                    executed_trades |-> <<>>, error |-> "escaped"]),
                        !.successful_cycles = IF ag.pc = "returned" /\ cyc.result.success
                                              THEN @ + 1 ELSE @]
    /\ tally' = [tally EXCEPT !.returned = @ + 1, !.sends = 0, !.delivered = 0]
    /\ cyc' = NoCycle
    /\ UNCHANGED <<self_trades, ledgerVars, stepVars>>

\* generate_cycle_summary, lines 543-551: the loop over results, from the first
\* result on; acc is <<total_balance, total_executed_trades, final_balance>>
RECURSIVE SumResults(_, _, _)
SumResults(results, k, acc) ==
    IF k > Len(results) THEN acc
    ELSE SumResults(results, k + 1,
                    IF results[k].success
                    THEN <<acc[1] + results[k].balance,
                           acc[2] + Len(results[k].executed_trades),
                           results[k].balance>>
                    ELSE acc)

AvgBalance_OverAllCycles(total_balance, successful_cycles, total_cycles) ==
    IF successful_cycles > 0 THEN RoundRatio(total_balance, 10 * total_cycles) ELSE 0

\* Line 553 and the :,.2f of line 567: the average balance as printed, in cents
AvgBalance(total_balance, successful_cycles, total_cycles) ==
    IF successful_cycles > 0 THEN RoundRatio(total_balance, 10 * successful_cycles) ELSE 0

\* generate_cycle_summary, lines 539-580: the numbers of the summary text as they
\* are printed. Line 560 divides by total_cycles, and raises when it is 0.
generate_cycle_summary(results, successful_cycles, total_cycles) ==
    LET acc == SumResults(results, 1, <<0, 0, 0>>)
    IN  IF total_cycles = 0
        THEN [raised |-> TRUE]
        ELSE [raised |-> FALSE,
              total_cycles |-> total_cycles,
              successful_cycles |-> successful_cycles,
              success_rate |-> RoundRatio(successful_cycles * 1000, total_cycles),
              total_executed_trades |-> acc[2],
              avg_trades |-> RoundRatio(acc[2] * 10, total_cycles),
              avg_balance |-> AvgBalance(acc[1], successful_cycles, total_cycles),
              final_balance |-> Round2(acc[3])]

\* Lines 520-521: after the loop, the summary; its exception leaves
\* run_multi_cycle_analysis
summarize ==
    /\ ag.pc = "loop"
    /\ ag.i >= ag.cycles
    /\ LET summary == generate_cycle_summary(ag.results, ag.successful_cycles, ag.cycles)
       IN  ag' = [ag EXCEPT !.pc = IF summary.raised THEN "raised" ELSE "notify",
                            !.summary = summary]
    /\ UNCHANGED <<cyc, self_trades, tally, ledgerVars, stepVars>>

\* Lines 523-537: the consolidated report is sent (a failure is logged) and the
\* run returns
send_summary(r) ==
    /\ ag.pc = "notify"
    /\ tally' = [tally EXCEPT !.summaries = @ + 1,
                              !.sends = @ + (IF r.rule THEN 1 ELSE 0),
                              !.delivered = @ + (IF r.rule /\ r.send THEN 1 ELSE 0)]
    /\ ag' = [ag EXCEPT !.pc = "done",
                        !.ret = [kind |-> "result",
                                 summary |-> ag.summary,
                                 results |-> ag.results,
                                 successful_cycles |-> ag.successful_cycles,
                                 total_cycles |-> ag.cycles]]
    /\ UNCHANGED <<cyc, self_trades, ledgerVars, stepVars>>

\* main, lines 609-610: the standard mode with one cycle calls run_trading_cycle
\* directly (lines 417-424)
run_trading_cycle ==
    /\ ag.pc = "idle"
    /\ ag' = [NoRun EXCEPT !.pc = "analyze", !.mode = "single"]
    /\ cyc' = NoCycle
    /\ tally' = [tally EXCEPT !.started = @ + 1]
    /\ UNCHANGED <<self_trades, ledgerVars, stepVars>>

\* ... and gets the result of the cycle (lines 452-472 and 485-489)
run_trading_cycle_returns ==
    /\ ag.pc = "returned"
    /\ ag.mode = "single"
    /\ ag' = [ag EXCEPT !.pc = "done", !.ret = cyc.result]
    /\ tally' = [tally EXCEPT !.returned = @ + 1]
    /\ cyc' = NoCycle
    /\ UNCHANGED <<self_trades, ledgerVars, stepVars>>

\* run_test_mode, lines 624-718: the four component tests and the test report.
\* analyze_market, get_account_info, the agent's save_trading_result and
\* send_telegram_report each catch what their capability raises, so no test sets
\* overall_success to False; the account test records the success of
\* get_account_info. The save test saves 1000.0 with {"BTC": 0.1, "USDT": 500}.
\* The sink answers r to the report of the notification test and t to the test
\* report.
run_test_mode(acct, r, t) ==
    /\ ag.pc = "idle"
    /\ save_trading_result(ToolArgs(1000000,
                                    [c \in {"BTC", "USDT"} |-> IF c = "BTC" THEN 100 ELSE 500000],
                                    self_trades))
    /\ ag' = [NoRun EXCEPT !.pc = "done",
                           !.mode = "test",
                           !.ret = [tests |-> [market_analysis |-> TRUE,
                                               account_info |-> AccountInfo(acct).success,
                                               save_result |-> TRUE,
                                               telegram_report |-> TRUE],
                                    overall_success |-> TRUE]]
    /\ tally' = [tally EXCEPT !.sends = @ + SendsOfReport(r) + (IF t.rule THEN 1 ELSE 0),
                              !.delivered = @ + DeliveredOfReport(r) + (IF t.rule /\ t.send THEN 1 ELSE 0)]
    /\ UNCHANGED <<cyc, self_trades, stepVars>>

\* main, lines 612-620: result.get("success") chooses the branch
main_result ==
    /\ ag.pc = "done"
    /\ ag' = [ag EXCEPT !.pc = "exit",
                        !.branch = IF "success" \in DOMAIN ag.ret /\ ag.ret.success
                                   THEN "success" ELSE "failure"]
    /\ UNCHANGED <<cyc, self_trades, tally, ledgerVars, stepVars>>

----------------------------------------------------------------------------
(* TelegramNotificationSystem.generate_trading_report                       *)
(* (src/telegram_notification_system.py). Balances and asset values are in  *)
(* tenths of a dollar, as the ledger stores them. A text is the sequence of *)
(* its characters, a Chinese character being written by its pinyin.         *)

\* word in text
Contains(text, word) ==
    \E i \in 0..(Len(text) - Len(word)) : \A j \in 1..Len(word) : text[i + j] = word[j]

\* n / d to the nearest integer for d # 0 and n of any sign: what a format such
\* as :+.2f prints of a quotient
RoundSigned(n, d) ==
    LET an == IF n < 0 THEN -n ELSE n
        ad == IF d < 0 THEN -d ELSE d
    IN  IF (n < 0) = (d < 0) THEN RoundRatio(an, ad) ELSE -RoundRatio(an, ad)

RECURSIVE SumValues(_, _)
\* sum(assets.values())
SumValues(assets, keys) ==
    IF keys = {} THEN 0
    ELSE LET k == CHOOSE x \in keys : TRUE
         IN  assets[k] + SumValues(assets, keys \ {k})

NoReport == [data |-> [balances |-> <<>>, assets |-> EmptyMap, trades |-> <<>>, malformed |-> {}],
             out |-> [kind |-> "none"]]

\* The fixed text a section returns when its computation raised
Placeholder == [ok |-> FALSE]

\* Lines 65-66
latest_balance(balances) == IF Len(balances) > 0 THEN balances[Len(balances)].balance ELSE 0
initial_balance(balances) ==
    IF Len(balances) > 1 THEN balances[1].balance ELSE latest_balance(balances)

\* The keywords of _generate_market_summary (line 133) and of
\* _generate_risk_assessment (line 215)
MarketKeywords ==
    {<<"fen", "xi", "wan", "cheng">>,
     <<"M", "a", "r", "k", "e", "t", " ", "a", "n", "a", "l", "y", "s", "i", "s">>,
     <<"A", "I", " ", "A", "n", "a", "l", "y", "s", "i", "s">>,
     <<"ji", "shu", "xing", "hui", "tiao">>,
     <<"zi", "jin", "fei", "lv">>}
RiskKeywords ==
    {<<"gao", "feng", "xian">>, <<"jin", "shen">>, <<"guan", "wang">>,
     <<"zhi", "sun">>, <<"feng", "xian">>}

\* The texts of the trades that hold one of the keywords, in the order of the list
Matching(trades, keywords) ==
    LET Hit(t) == \E w \in keywords : Contains(t.text, w)
        hits == SelectSeq(trades, Hit)
    IN  [k \in 1..Len(hits) |-> hits[k].text]

\* _generate_market_summary, lines 126-149. trade.get raises on a trade that is
\* not an object.
generate_market_summary(trading_data) ==
    IF "trades" \in trading_data.malformed /\ trading_data.trades # <<>>
    THEN Placeholder
    ELSE [ok |-> TRUE, lines |-> FirstN(Matching(trading_data.trades, MarketKeywords), 3)]

\* _generate_portfolio_breakdown, lines 151-171: the total and, per asset, its
\* share in tenths of a percent
generate_portfolio_breakdown(assets, malformed) ==
    IF DOMAIN assets = {} THEN [ok |-> TRUE, empty |-> TRUE]
    ELSE IF "assets" \in malformed THEN Placeholder
    ELSE LET total_value == SumValues(assets, DOMAIN assets)
         IN  [ok |-> TRUE, empty |-> FALSE, total_value |-> total_value,
              percentage |-> [k \in DOMAIN assets |->
                                 IF total_value > 0 THEN RoundRatio(assets[k] * 1000, total_value)
                                 ELSE 0]]

\* The words _generate_trades_summary looks for (lines 190-193)
WordBought == <<"B", "o", "u", "g", "h", "t">>
WordBuy == <<"B", "u", "y">>
WordSold == <<"S", "o", "l", "d">>
WordSell == <<"S", "e", "l", "l">>

IsBuy(text) == Contains(text, WordBought) \/ Contains(text, WordBuy)
IsSell(text) == ~IsBuy(text) /\ (Contains(text, WordSold) \/ Contains(text, WordSell))

\* _generate_trades_summary, lines 173-205, of trades[:10]
generate_trades_summary(trades, malformed) ==
    IF trades = <<>> THEN [ok |-> TRUE, empty |-> TRUE]
    ELSE IF "trades" \in malformed THEN Placeholder
    ELSE LET shown == FirstN(trades, 10)
         IN  [ok |-> TRUE, empty |-> FALSE,
              buy_count |-> Cardinality({k \in 1..Len(shown) : IsBuy(shown[k].text)}),
              sell_count |-> Cardinality({k \in 1..Len(shown) : IsSell(shown[k].text)}),
              lines |-> Len(shown)]

\* _generate_risk_assessment, lines 207-231
generate_risk_assessment(trading_data) ==
    IF "trades" \in trading_data.malformed /\ trading_data.trades # <<>>
    THEN Placeholder
    ELSE LET risk_indicators == Matching(trading_data.trades, RiskKeywords)
         IN  [ok |-> TRUE,
              risk_level |-> IF risk_indicators = <<>> THEN "low"
                             ELSE IF Len(risk_indicators) <= 3 THEN "medium" ELSE "high",
              lines |-> FirstN(risk_indicators, 3)]

\* _get_balances_from_demo, lines 257-264
BalancesFromDemo(f) == IF f.kind = "ledger" THEN f.data.balances ELSE <<>>

\* _generate_performance_metrics, lines 233-255, as printed: the rate in
\* hundredths of a percent (:+.2f), the net profit in tenths of a dollar, the
\* daily average in cents (:+.2f), the span in tenths of a day (:.1f)
generate_performance_metrics(initial, latest, total_portfolio_value, f) ==
    LET net_profit == latest - initial
        balance_records == Len(BalancesFromDemo(f))
    IN  [ok |-> TRUE,
         profit_rate |-> IF initial > 0 THEN RoundSigned(net_profit * 10000, initial) ELSE 0,
         net_profit |-> net_profit,
         daily_avg_profit |-> IF balance_records > 0
                              THEN RoundSigned(net_profit * 240, balance_records)
                              ELSE net_profit * 10,
         total_portfolio_value |-> total_portfolio_value,
         days_span |-> IF balance_records > 0 THEN RoundRatio(balance_records * 10, 24) ELSE 10]

\* What generate_trading_report returns for trading_data, with demo.json as f:
\* the report, section by section, or the one line of its handler (lines 122-124)
\* with the exception that reached it. sum(assets.values()) of line 69 raises on a
\* value that is not a number, the rate of line 89 on an initial balance of 0.
TradingReport(trading_data, f) ==
    LET balances == trading_data.balances
        assets == trading_data.assets
        latest == latest_balance(balances)
        initial == initial_balance(balances)
    IN  IF DOMAIN assets # {} /\ "assets" \in trading_data.malformed
        THEN [kind |-> "error", error |-> "TypeError"]
        ELSE IF initial = 0
        THEN [kind |-> "error", error |-> "ZeroDivisionError"]
        ELSE LET total_portfolio_value == SumValues(assets, DOMAIN assets)
             IN  [kind |-> "report",
                  latest_balance |-> latest,
                  initial_balance |-> initial,
                  total_portfolio_value |-> total_portfolio_value,
                  net_profit |-> latest - initial,
                  profit_rate |-> RoundSigned((latest - initial) * 10000, initial),
                  market_summary |-> generate_market_summary(trading_data),
                  trades_summary |-> generate_trades_summary(FirstN(trading_data.trades, 10),
                                                             trading_data.malformed),
                  portfolio_breakdown |-> generate_portfolio_breakdown(assets, trading_data.malformed),
                  risk_assessment |-> generate_risk_assessment(trading_data),
                  performance_metrics |-> generate_performance_metrics(initial, latest,
                                                                       total_portfolio_value, f)]

\* generate_trading_report(trading_data), lines 54-124
generate_trading_report(trading_data) ==
    /\ report' = [data |-> trading_data, out |-> TradingReport(trading_data, file)]
    /\ UNCHANGED <<ledgerVars, proc, seen, agentVars>>

----------------------------------------------------------------------------
(* Specifications *)

InitFiles == {Absent, Corrupt, NonObject, Unreadable}

Init ==
    /\ file \in InitFiles
    /\ readme = NoReadme
    /\ tpl \in BOOLEAN
    /\ clock = 0
    /\ ncalls = 0
    /\ args = NoArgs
    /\ ret = [kind |-> "none", chart |-> <<>>]
    /\ pre = [file |-> file, readme |-> readme]
    /\ accepted = <<>>
    /\ inserted = <<>>
    /\ proc = [p \in Procs |-> Idle]
    /\ seen = NotRead
    /\ report = NoReport
    /\ ag = NoRun
    /\ cyc = NoCycle
    /\ self_trades = <<>>
    /\ tally = NoTally

\* Spec: calls of save_trading_result one after another, with any arguments
Save ==
    /\ ncalls < MaxCalls
    /\ \E a \in SaveArgs : save_trading_result(a)
    /\ UNCHANGED <<stepVars, agentVars>>

Next == Save

Spec == Init /\ [][Next]_vars

\* SpecWindow: a long run of calls, enough to fill the balance history. Call i
\* brings a balance that depends on i alone; every 50th brings a zero balance.
WindowArgs(i) ==
    [balance |-> [given |-> TRUE,
                  cents |-> IF i % 50 = 0 THEN 0 ELSE 100 * i + 12 * (i % 4)],
     assets |-> [form |-> "default", val |-> EmptyMap],
     trades |-> [form |-> "default", val |-> <<>>]]

SaveWindow ==
    /\ ncalls < MaxWindowCalls
    /\ save_trading_result(WindowArgs(ncalls + 1))
    /\ UNCHANGED <<stepVars, agentVars>>

NextWindow == SaveWindow

SpecWindow == Init /\ [][NextWindow]_vars

\* SpecConc: two callers of save_trading_result and a reader of demo.json at once.
\* Their arguments differ in the balance and in the trade text.
ArgsA == [balance |-> [given |-> TRUE, cents |-> 125],
          assets |-> [form |-> "dict", val |-> AssetsA],
          trades |-> [form |-> "list", val |-> <<TradeText("Buy 0.1 BTC")>>]]
ArgsB == [balance |-> [given |-> TRUE, cents |-> 225],
          assets |-> [form |-> "dict", val |-> AssetsA],
          trades |-> [form |-> "list", val |-> <<TradeText("Buy 0.2 BTC")>>]]

ConcArgs == {ArgsA, ArgsB}

Begin(p) ==
    /\ ncalls < MaxConcCalls
    /\ \E a \in ConcArgs : save_begin(p, a)

NextConc ==
    \/ \E p \in Procs : Begin(p)
    \/ \E p \in Procs : save_open(p)
    \/ \E p \in Procs : save_dump(p)
    \/ \E p \in Procs : save_render(p)
    \/ get_balances_from_demo

SpecConc == Init /\ [][NextConc]_vars

\* SpecFaulty: one caller, whose write of demo.json may fail part-way
NextFaulty ==
    \/ Begin(1)
    \/ save_open(1)
    \/ save_dump(1)
    \/ save_dump_fails(1)
    \/ save_render(1)

SpecFaulty == Init /\ [][NextFaulty]_vars

\* SpecAgent: one run of run_multi_cycle_analysis, on a new agent with no ledger
\* yet. The market is quiet (nothing to trade), busy (a buy and a sell to execute,
\* a buy at confidence 0.7 exactly, a pair with no answer) or broken (a request
\* raises).
Quiet == [i \in PairIdx |-> Advice("hold", 50)]
Busy == [i \in PairIdx |->
            CASE i = 1 -> Advice("buy", 90)
              [] i = 2 -> Advice("sell", 80)
              [] i = 3 -> Advice("buy", 70)
              [] i = 4 -> Nothing
              [] OTHER -> Advice("hold", 95)]
Broken == [i \in PairIdx |-> IF i = 3 THEN Raises ELSE Advice("sell", 60)]

Markets == {Quiet, Busy, Broken}
ExecFailures == {{}, {1}}
AccountResps ==
    {AcctRaises, AcctNothing,
     Acct(1000000, [c \in {"BTC", "USDT"} |-> IF c = "BTC" THEN 104 ELSE 500000]),
     Acct(1100504, [c \in {"BTC", "ETH"} |-> IF c = "BTC" THEN 0 ELSE 2000])}
SinkResps == {r \in NotifyResps : r.fallback = r.rule}

InitAgent ==
    /\ Init
    /\ file = Absent
    /\ tpl

NextAgent ==
    \/ \E n \in 0..MaxCycles : run_multi_cycle_analysis(n)
    \/ cycle_start
    \/ \E first \in Markets, second \in Markets : analyze_market(first, second)
    \/ \E failing \in ExecFailures : execute_trades(failing)
    \/ \E acct \in AccountResps : get_account_info(acct)
    \/ \E r \in SinkResps, acct \in AccountResps : send_telegram_report(r, acct)
    \/ \E r \in SinkResps : cycle_except(r, FALSE)
    \/ cycle_return
    \/ summarize
    \/ \E r \in SinkResps : send_summary(r)

SpecAgent == InitAgent /\ [][NextAgent]_vars

\* SpecAgentFaults: SpecAgent, and the handler of run_trading_cycle may itself
\* raise (a failure of the interpreter or of the logging, such as a MemoryError)
NextAgentFaults ==
    \/ NextAgent
    \/ \E r \in SinkResps : cycle_except(r, TRUE)

SpecAgentFaults == InitAgent /\ [][NextAgentFaults]_vars

\* SpecMain: main starts a run in one of its modes (the multi-cycle analysis,
\* the test mode, one cycle) and reports its result
NextMain ==
    \/ NextAgent
    \/ run_trading_cycle
    \/ run_trading_cycle_returns
    \/ \E acct \in AccountResps, r \in SinkResps, t \in SinkResps : run_test_mode(acct, r, t)
    \/ main_result

SpecMain == InitAgent /\ [][NextMain]_vars

\* SpecReport: reports of trading data with no, one, two or three balance
\* points, with and without assets and trades, well formed or not (malformed
\* names the keys whose values are not of the shape the ledger writes: an asset
\* value that is not a number, a trade that is not an object), while demo.json
\* is absent, unparseable or holds up to MaxRecords balance records. One report
\* is generated per behaviour: the function keeps nothing from call to call.
Points(values) == [i \in 1..Len(values) |-> [time |-> i, balance |-> values[i]]]
History(n) == [EmptyData EXCEPT !.keys = {"balances"},
                                !.balances = [i \in 1..n |-> [time |-> i, balance |-> 10000 + i]]]

ReportBalances ==
    {Points(<<>>), Points(<<10000>>), Points(<<0>>), Points(<<10000, 12500>>),
     Points(<<10000, 8004>>), Points(<<0, 10000>>), Points(<<10000, 0>>),
     Points(<<10000, 0, 10333>>)}
ReportAssets ==
    {EmptyMap,
     [c \in {"BTC", "USDT"} |-> IF c = "BTC" THEN 3333 ELSE 6667],
     [c \in {"BTC"} |-> 0]}

TextBought == <<"B", "o", "u", "g", "h", "t", " ", "B", "T", "C">>
TextSold == <<"S", "o", "l", "d", " ", "E", "T", "H">>
TextBUY == <<"B", "U", "Y", " ", "B", "T", "C", "-", "U", "S", "D", "T">>
TextAnalysis == <<"A", "I", " ", "A", "n", "a", "l", "y", "s", "i", "s", ":", " ", "guan", "wang">>
TextNote == <<"o", "k">>

Deals(texts) == [i \in 1..Len(texts) |-> [time |-> 100 - i, text |-> texts[i]]]
ReportTrades ==
    {Deals(<<>>),
     Deals(<<TextBought, TextSold, TextBUY>>),
     Deals(<<TextAnalysis, TextNote>>),
     Deals(<<TextBought, TextBought, TextBought, TextBought, TextBought, TextBought,
             TextBought, TextBought, TextBought, TextBought, TextSold>>)}

TradingData ==
    [balances : ReportBalances, assets : ReportAssets, trades : ReportTrades,
     malformed : SUBSET {"assets", "trades"}]

ReportFiles == {Absent, Corrupt} \cup {LedgerFile(History(n)) : n \in 0..MaxRecords}

InitReport ==
    /\ file \in ReportFiles
    /\ readme = NoReadme
    /\ tpl = TRUE
    /\ clock = 0
    /\ ncalls = 0
    /\ args = NoArgs
    /\ ret = [kind |-> "none", chart |-> <<>>]
    /\ pre = [file |-> file, readme |-> readme]
    /\ accepted = <<>>
    /\ inserted = <<>>
    /\ proc = [p \in Procs |-> Idle]
    /\ seen = NotRead
    /\ report = NoReport
    /\ ag = NoRun
    /\ cyc = NoCycle
    /\ self_trades = <<>>
    /\ tally = NoTally

NextReport ==
    /\ report = NoReport
    /\ \E trading_data \in TradingData : generate_trading_report(trading_data)

SpecReport == InitReport /\ [][NextReport]_vars

----------------------------------------------------------------------------
(* The ledger's claims *)

\* C1: after N calls that completed, starting from no ledger, the balance history
\* has min(N, 1000) points, and they are the (rounded) balances of the last
\* min(N, 1000) of those calls, oldest first.
C1_BalancesWindow ==
    file.kind = "ledger" =>
        LET n == Len(accepted)
            k == Len(file.data.balances)
        IN  /\ k = Min(n, BALANCES_KEEP)
            /\ \A i \in 1..k :
                  file.data.balances[i] =
                      [time |-> accepted[n - k + i].time,
                       balance |-> Round1(accepted[n - k + i].cents)]

\* C1's case: more calls than the history holds have completed
C1_Witness ==
    /\ file.kind = "ledger"
    /\ Len(accepted) > BALANCES_KEEP
    /\ Len(file.data.balances) = BALANCES_KEEP

\* C2: the trade list never holds more than 100 entries, an entry inserted later
\* is in front of every entry inserted earlier, and the entries dropped are the
\* earliest inserted: the list is the last min(T, 100) of the T inserted, newest first.
C2_TradesNewestFirst ==
    file.kind = "ledger" =>
        LET t == file.data.trades
            n == Len(inserted)
        IN  /\ Len(t) <= TRADES_KEEP
            /\ Len(t) = Min(n, TRADES_KEEP)
            /\ \A i \in 1..Len(t) : t[i] = inserted[n + 1 - i]
            /\ \A i, j \in 1..Len(t) : i < j => t[i].time > t[j].time

\* C2's case: trades of two calls are in the list and earlier ones have been dropped
C2_Witness ==
    /\ file.kind = "ledger"
    /\ Len(inserted) > TRADES_KEEP + 1
    /\ Len(file.data.trades) = TRADES_KEEP
    /\ pre.file.kind = "ledger"
    /\ Len(pre.file.data.trades) > 0

\* C3: a call that completed without assets (absent or empty) leaves the stored
\* snapshot as it found it; one with a non-empty map leaves a snapshot with
\* exactly the keys of that map.
C3_AssetsKeptOrReplaced ==
    ret.kind = "ok" =>
        IF DOMAIN args.assets.val = {}
        THEN /\ file.data.assets = pre.file.data.assets
             /\ ("assets" \in file.data.keys) = ("assets" \in pre.file.data.keys)
        ELSE /\ DOMAIN file.data.assets = DOMAIN args.assets.val
             /\ "assets" \in file.data.keys

\* C3's case: a snapshot is replaced by one with other keys
C3_Witness ==
    /\ ret.kind = "ok"
    /\ DOMAIN pre.file.data.assets = {"BTC", "USDT"}
    /\ DOMAIN args.assets.val = {"ETH"}
    /\ DOMAIN file.data.assets = {"ETH"}

\* C4: a call with a missing or zero balance is rejected and writes nothing:
\* demo.json and README.md are as the call found them.
C4_RejectedWritesNothing ==
    (ncalls > 0 /\ (~args.balance.given \/ args.balance.cents = 0)) =>
        /\ ret.kind = "rejected"
        /\ file = pre.file
        /\ readme = pre.readme

\* C4's case: a zero balance comes with assets and trades, onto a ledger that
\* a README.md is rendered from
C4_Witness ==
    /\ ret.kind = "rejected"
    /\ args.balance.given
    /\ DOMAIN args.assets.val # {}
    /\ Len(args.trades.val) > 0
    /\ file.kind = "ledger"
    /\ tpl

\* C5: whatever is wrong with the existing ledger (absent, unreadable, not a
\* ledger object), a call with a balance completes, and leaves a ledger that
\* holds just this call's data.
C5_ReadFailureNotFatal ==
    (ncalls > 0 /\ ~NotBalance(args.balance) /\ pre.file.kind # "ledger") =>
        /\ ret.kind = "ok"
        /\ file = LedgerFile(UpdateLedger(EmptyData, clock - Ticks(args), args))

\* C6: when two callers have both completed, the ledger holds the balance point
\* and the trades of every completed call.
C6_NoLostUpdate ==
    ((\A p \in Procs : proc[p].pc = "idle") /\ file.kind = "ledger") =>
        /\ \A i \in 1..Len(accepted) :
              \E j \in 1..Len(file.data.balances) :
                  file.data.balances[j].time = accepted[i].time
        /\ \A i \in 1..Len(inserted) :
              \E j \in 1..Len(file.data.trades) : file.data.trades[j] = inserted[i]

\* C7: no reader of demo.json, a caller of save_trading_result or
\* _get_balances_from_demo, finds the file emptied or half-written by a write
\* in progress where a ledger was.
C7_NoTornRead ==
    /\ ~seen.torn
    /\ \A p \in Procs : ~proc[p].torn

\* C8: a call whose write fails part-way leaves demo.json holding the ledger it
\* held before the call.
C8_WriteAtomic ==
    (proc[1].ret.kind = "write_failed" /\ proc[1].pre.kind = "ledger") =>
        file = proc[1].pre

----------------------------------------------------------------------------
(* The agent's claims *)

\* C9: run_multi_cycle_analysis(n) runs run_trading_cycle exactly n times, one
\* after another: never more than one cycle is started and not yet returned, a
\* cycle is in progress exactly when one more has started than returned, never
\* more than n are started, and once the loop is over exactly n cycles have
\* started and returned, whatever number of them failed or raised.
C9_ExactlyNSequential ==
    /\ tally.started - tally.returned \in {0, 1}
    /\ (tally.started = tally.returned + 1) <=> (ag.pc \in {"analyze", "execute", "account", "report",
                                                            "failed", "returned", "escaped"})
    /\ tally.started <= ag.cycles
    /\ tally.returned = Len(ag.results)
    /\ ag.pc \in {"notify", "done", "raised"} =>
          /\ tally.started = ag.cycles
          /\ tally.returned = ag.cycles

\* A run of three cycles is over: the first returned success=False, the second
\* raised, and the third still ran and succeeded
C9_Witness ==
    /\ ag.pc = "done"
    /\ ag.cycles = 3
    /\ Len(ag.results) = 3
    /\ ag.results[1].error = "TypeError"
    /\ ag.results[2].error = "escaped"
    /\ ag.results[3].success

\* C10: in the summary, successful_cycles is the number of results with
\* success=True, total_cycles is n, and the average balance is the sum of the
\* balances of the successful results divided by their number (printed to the
\* cent), or 0 when no cycle succeeded.
C10_SummaryCounts ==
    ag.pc \in {"notify", "done"} =>
        LET results == ag.results
            good == {k \in 1..Len(results) : results[k].success}
            RECURSIVE Sum(_)
            Sum(S) == IF S = {} THEN 0
                      ELSE LET k == CHOOSE x \in S : TRUE
                           IN  results[k].balance + Sum(S \ {k})
        IN  /\ ag.summary.successful_cycles = Cardinality(good)
            /\ ag.summary.total_cycles = ag.cycles
            /\ ag.summary.avg_balance = IF good = {} THEN 0
                                        ELSE RoundRatio(Sum(good), 10 * Cardinality(good))
            /\ ag.pc = "done" =>
                  /\ ag.ret.successful_cycles = Cardinality(good)
                  /\ ag.ret.total_cycles = ag.cycles

\* Three cycles, the second failed, the first and the third succeeded with
\* different balances
C10_Witness ==
    /\ ag.pc = "done"
    /\ ag.cycles = 3
    /\ Len(ag.results) = 3
    /\ ag.results[1].success /\ ag.results[1].balance > 0
    /\ ~ag.results[2].success
    /\ ag.results[3].success /\ ag.results[3].balance > 0
    /\ ag.results[1].balance # ag.results[3].balance

\* C11: an exception that leaves a step of run_trading_cycle is caught by the
\* handler of the cycle: from the failed step the cycle goes to its return, with a
\* result of success=False that carries the text of the exception; the error
\* notification is attempted once (the markdown rule is called once, and the
\* message sent at most once), and whether the sink answers or raises changes
\* nothing to that.
C11_CycleErrorCaught ==
    [][ag.pc = "failed" =>
          LET ErrorRules(calls) == {k \in 1..Len(calls) : calls[k].step = "error" /\ calls[k].op = "rule"}
              ErrorSends(calls) == {k \in 1..Len(calls) : calls[k].step = "error" /\ calls[k].op = "send"}
          IN  /\ cyc.raised # "none"
              /\ ag'.pc = "returned"
              /\ ~cyc'.result.success
              /\ cyc'.result.error = cyc.raised
              /\ ErrorRules(cyc.calls) = {}
              /\ Cardinality(ErrorRules(cyc'.calls)) = 1
              /\ Cardinality(ErrorSends(cyc'.calls)) <= 1]_vars

\* A cycle whose execute_trades raised has returned success=False, and the sink
\* raised when the error message was sent
C11_Witness ==
    /\ ag.pc = "returned"
    /\ cyc.raised = "TypeError"
    /\ ~cyc.result.success
    /\ cyc.result.error = "TypeError"
    /\ \E k \in 1..Len(cyc.calls) : cyc.calls[k].step = "error" /\ ~cyc.calls[k].ok

\* C12: whatever the notification sink does while the report of the cycle is
\* sent (the markdown rule, the photo or the text, the fallback message may each
\* raise), the cycle returns success=True with the balance and the executed
\* trades it had before the report.
C12_SinkFailureKeepsResult ==
    [][ag.pc = "report" =>
          /\ ag'.pc = "returned"
          /\ cyc'.raised = "none"
          /\ cyc'.result.success
          /\ cyc'.result.error = "none"
          /\ cyc'.result.balance = cyc.balance
          /\ cyc'.result.executed_trades = cyc.executed_trades]_vars

\* A cycle with a balance and executed trades has returned success=True although
\* every call of the sink for its report raised
C12_Witness ==
    /\ ag.pc = "returned"
    /\ cyc.result.success
    /\ cyc.result.balance > 0
    /\ Len(cyc.result.executed_trades) > 0
    /\ \E k \in 1..Len(cyc.calls) : cyc.calls[k].step = "report" /\ cyc.calls[k].op = "send"
    /\ \A k \in 1..Len(cyc.calls) :
          (cyc.calls[k].step = "report" /\ cyc.calls[k].op \in {"rule", "send"}) => ~cyc.calls[k].ok

\* C13: once the account capability has raised or returned nothing in step 3, the
\* cycle goes on with balance 0 and no assets: no step of the rest of that cycle
\* touches demo.json or calls the save tool, the report is sent, and the cycle
\* returns success=True with balance 0.
C13_AccountFailureNotFatal ==
    [][(\E k \in 1..Len(cyc'.calls) : /\ cyc'.calls[k].step = "persist"
                                     /\ cyc'.calls[k].op = "account"
                                     /\ ~cyc'.calls[k].ok) =>
          /\ file' = file
          /\ accepted' = accepted
          /\ ncalls' = ncalls
          /\ \A k \in 1..Len(cyc'.calls) : cyc'.calls[k].op # "save"
          /\ cyc'.raised = "none"
          /\ cyc'.balance = 0
          /\ cyc'.assets = EmptyMap
          /\ ag'.pc \in {"report", "returned"}
          /\ ag'.pc = "returned" =>
                /\ cyc'.result.success
                /\ cyc'.result.balance = 0
                /\ \E k \in 1..Len(cyc'.calls) : cyc'.calls[k].step = "report" /\ cyc'.calls[k].op = "rule"]_vars

\* The second cycle of a run has returned success=True with balance 0 after its
\* account call failed; the ledger holds the one point of the first cycle
C13_Witness ==
    /\ ag.pc = "returned"
    /\ Len(ag.results) = 1
    /\ \E k \in 1..Len(cyc.calls) : cyc.calls[k].op = "account" /\ cyc.calls[k].step = "persist" /\ ~cyc.calls[k].ok
    /\ cyc.result.success
    /\ cyc.result.balance = 0
    /\ Len(accepted) = 1
    /\ file.kind = "ledger"
    /\ Len(file.data.balances) = 1

\* C16: the save call of a cycle passes the descriptions of the trades executed
\* in that cycle and no other, so that over a run no more trade entries are
\* inserted into the ledger than trades were executed.
C16_SavePassesCycleTrades ==
    /\ (\E k \in 1..Len(cyc.calls) : cyc.calls[k].op = "save") =>
          LET mine == Descriptions(cyc.executed_trades)
          IN  args.trades = [form |-> "list", val |-> [k \in 1..Len(mine) |-> TradeText(mine[k])]]
    /\ Len(inserted) <= Len(self_trades)

\* C17: the calls of one cycle are made in the order of its steps: analysis,
\* execution, account retrieval and save, report, then (only after a failure)
\* error reporting. Every pair has been requested before anything is executed,
\* the save follows the last execution request and comes before the report, and
\* once a step has raised the cycle makes no call of a later step: it reports
\* the error and returns.
C17_StepOrder ==
    LET calls == cyc.calls
        Rank(c) == CASE c.step = "analysis" -> 1
                     [] c.step = "execution" -> 2
                     [] c.step = "persist" -> 3
                     [] c.step = "report" -> 4
                     [] OTHER -> 5
        StepOf(c) == CASE c.op = "analyze" -> {"analysis"}
                       [] c.op = "execute" -> {"execution"}
                       [] c.op = "save" -> {"persist"}
                       [] c.op = "account" -> {"persist", "report"}
                       [] OTHER -> {"report", "error"}
        Reached == CASE ag.pc = "analyze" -> 0
                     [] ag.pc = "execute" -> 1
                     [] ag.pc = "account" -> 2
                     [] ag.pc = "report" -> 3
                     [] ag.pc = "returned" -> 5
                     [] ag.pc = "failed" -> 2
                     [] OTHER -> 0
    IN  /\ \A i, j \in 1..Len(calls) : i < j => Rank(calls[i]) <= Rank(calls[j])
        /\ \A k \in 1..Len(calls) : calls[k].step \in StepOf(calls[k]) /\ Rank(calls[k]) <= Reached
        /\ (\E k \in 1..Len(calls) : Rank(calls[k]) > 1) =>
              \A p \in PairIdx : \E k \in 1..Len(calls) : calls[k].op = "analyze" /\ calls[k].pair = p
        /\ \A i, j \in 1..Len(calls) :
              (calls[i].op = "save" /\ calls[j].op \in {"rule", "send"}) => i < j
        /\ cyc.raised = "none" => \A k \in 1..Len(calls) : calls[k].step # "error"
        /\ cyc.raised # "none" =>
              /\ ag.pc \in {"failed", "returned"}
              /\ \A k \in 1..Len(calls) : calls[k].step \notin {"persist", "report"}
              /\ ag.pc = "returned" =>
                    /\ ~cyc.result.success
                    /\ calls[Len(calls)].step = "error"

\* After a first cycle that failed in execute_trades, the second cycle has made
\* its requests, saved and sent its report
C17_Witness ==
    /\ ag.pc = "returned"
    /\ Len(ag.results) = 1
    /\ ag.results[1].error = "TypeError"
    /\ cyc.raised = "none"
    /\ \E k \in 1..Len(cyc.calls) : cyc.calls[k].op = "execute"
    /\ \E k \in 1..Len(cyc.calls) : cyc.calls[k].op = "save" /\ cyc.calls[k].ok
    /\ \E k \in 1..Len(cyc.calls) : cyc.calls[k].op = "send" /\ cyc.calls[k].step = "report"

\* C18: once execute_trades is over, an execution request has been made for a
\* pair exactly when the pair's analysis is not an error entry, its action is not
\* hold and its confidence is above 0.7, and no pair has two requests.
C18_DispatchRule ==
    ag.pc \in {"failed", "account", "report", "returned"} =>
        LET calls == cyc.calls
            Requests(p) == {k \in 1..Len(calls) : calls[k].op = "execute" /\ calls[k].pair = p}
            Eligible(p) == /\ cyc.analysis[p].kind # "error"
                           /\ cyc.analysis[p].action # "hold"
                           /\ cyc.analysis[p].conf > 70
        IN  \A p \in PairIdx : Cardinality(Requests(p)) = IF Eligible(p) THEN 1 ELSE 0

\* C19: once analyze_market is over, every pair has been requested once, a pair
\* whose request raised has an error entry, and every other pair has the answer
\* to its request (an error entry if the answer was empty).
C19_PairFailureIsolated ==
    (ag.pc \in {"execute", "failed", "account", "report", "returned"}) =>
        LET calls == cyc.calls
            Requests(p) == {k \in 1..Len(calls) : calls[k].op = "analyze" /\ calls[k].pair = p}
        IN  \A p \in PairIdx :
               /\ Cardinality(Requests(p)) = 1
               /\ (\E k \in Requests(p) : ~calls[k].ok) => cyc.analysis[p].kind = "error"
               /\ cyc.analysis[p].kind # "none"

\* C20: within a cycle no call that failed is made again: after a request to a
\* capability has raised (or, for the account, returned nothing), the cycle makes
\* no later request to the same capability about the same pair; for the sink,
\* no later send for the same report.
C20_NoRetry ==
    LET calls == cyc.calls
    IN  \A i, j \in 1..Len(calls) :
           (i < j /\ ~calls[i].ok /\ calls[i].op # "rule") =>
               ~(/\ calls[j].op = calls[i].op
                 /\ calls[j].pair = calls[i].pair
                 /\ (calls[i].op = "send" => calls[j].step = calls[i].step))

\* C23: run_multi_cycle_analysis(n) never raises, for n = 0 as for any other n:
\* it returns a result with the summary after one consolidated notification was
\* attempted.
C23_RunCompletes ==
    /\ ag.pc # "raised"
    /\ ag.pc = "done" =>
          /\ ag.ret.kind = "result"
          /\ ~ag.ret.summary.raised
          /\ tally.summaries = 1

\* C24: the total of executed trades in the summary is the number of executions
\* that succeeded in the successful cycles, which is the number of descriptions
\* the run appended to self.trades; an execution that raised is not counted.
C24_CountsSucceededExecutions ==
    ag.pc \in {"notify", "done"} =>
        LET results == ag.results
            Succeeded(k) == {e \in 1..Len(results[k].executed_trades) : results[k].executed_trades[e].ok}
            RECURSIVE Total(_)
            Total(k) == IF k = 0 THEN 0
                        ELSE Total(k - 1) + (IF results[k].success THEN Cardinality(Succeeded(k)) ELSE 0)
        IN  /\ ag.summary.total_executed_trades = Total(Len(results))
            /\ ag.summary.total_executed_trades = Len(self_trades)

\* C25: main takes its success branch for a multi-cycle run of at least one
\* cycle in which every cycle succeeded, and for a test-mode run in which every
\* component test passed.
C25_MainReportsSuccess ==
    ag.pc = "exit" =>
        /\ (/\ ag.mode = "multi"
            /\ ag.cycles >= 1
            /\ \A k \in 1..Len(ag.results) : ag.results[k].success) => ag.branch = "success"
        /\ (/\ ag.mode = "test"
            /\ ag.ret.overall_success
            /\ \A t \in DOMAIN ag.ret.tests : ag.ret.tests[t]) => ag.branch = "success"

----------------------------------------------------------------------------
(* The report's claims *)

\* C14: the report of well-formed trading data shows a profit rate: 0 when the
\* initial balance is 0 (an empty balance history included), and otherwise
\* (latest - initial) / initial * 100, in the account summary as in the
\* performance metrics; no division error replaces the report.
C14_ProfitRateDefined ==
    (report.out.kind # "none" /\ report.data.malformed = {}) =>
        LET initial == initial_balance(report.data.balances)
            latest == latest_balance(report.data.balances)
            rate == IF initial = 0 THEN 0 ELSE RoundSigned((latest - initial) * 10000, initial)
        IN  /\ report.out.kind = "report"
            /\ report.out.profit_rate = rate
            /\ report.out.performance_metrics.profit_rate = rate

\* C15: whatever the trading data, generate_trading_report returns a report with
\* its six sections, and a section holds its placeholder only when its own
\* computation failed: the portfolio breakdown on malformed assets, the market
\* summary, the trade summary and the risk assessment on malformed trades; a
\* failure of one section never replaces the whole report.
C15_SectionsIndependent ==
    report.out.kind # "none" =>
        LET data == report.data
            out == report.out
            bad_assets == "assets" \in data.malformed /\ DOMAIN data.assets # {}
            bad_trades == "trades" \in data.malformed /\ data.trades # <<>>
        IN  /\ out.kind = "report"
            /\ out.portfolio_breakdown.ok = ~bad_assets
            /\ out.market_summary.ok = ~bad_trades
            /\ out.trades_summary.ok = ~bad_trades
            /\ out.risk_assessment.ok = ~bad_trades
            /\ out.performance_metrics.ok

\* C21: in the performance metrics of a report, the span is one day whenever
\* demo.json holds at most 24 balance records (none included), and the daily
\* average profit is then no larger in magnitude than the net profit.
C21_DaysSpanAtLeastOne ==
    (report.out.kind = "report" /\ Len(BalancesFromDemo(file)) <= 24) =>
        LET metrics == report.out.performance_metrics
            Abs(x) == IF x < 0 THEN -x ELSE x
        IN  /\ metrics.ok
            /\ metrics.days_span = 10
            /\ Abs(metrics.daily_avg_profit) <= Abs(metrics.net_profit * 10)

\* C22: the trade summary counts, among the 10 most recent trades, as a buy each
\* text that holds "bought" or "buy" in any letter case, and as a sell each other
\* text that holds "sold" or "sell" in any letter case; a description such as
\* "BUY BTC-USDT" is counted.
C22_CaseInsensitiveCount ==
    (report.out.kind = "report" /\ report.out.trades_summary.ok /\ report.data.trades # <<>>) =>
        LET upper == <<"A", "B", "C", "D", "E", "G", "H", "I", "L", "M", "O", "S", "T", "U", "Y">>
            lower == <<"a", "b", "c", "d", "e", "g", "h", "i", "l", "m", "o", "s", "t", "u", "y">>
            Lower(ch) == IF \E i \in 1..Len(upper) : upper[i] = ch
                         THEN lower[CHOOSE i \in 1..Len(upper) : upper[i] = ch]
                         ELSE ch
            Folded(text) == [i \in 1..Len(text) |-> Lower(text[i])]
            Buy(text) == \/ Contains(Folded(text), <<"b", "o", "u", "g", "h", "t">>)
                         \/ Contains(Folded(text), <<"b", "u", "y">>)
            Sell(text) == /\ ~Buy(text)
                          /\ \/ Contains(Folded(text), <<"s", "o", "l", "d">>)
                             \/ Contains(Folded(text), <<"s", "e", "l", "l">>)
            shown == FirstN(report.data.trades, 10)
        IN  /\ report.out.trades_summary.buy_count = Cardinality({k \in 1..Len(shown) : Buy(shown[k].text)})
            /\ report.out.trades_summary.sell_count = Cardinality({k \in 1..Len(shown) : Sell(shown[k].text)})

============================================================================
